---- MODULE Spec2Model ----
(***************************************************************************)
(* Cursemap (src/src/main.rs): a service that mirrors two upstream         *)
(* collections (versions, versionTypes) into db.sqlite, refreshes the      *)
(* mirror when it is older than TIME_TO_REFRESH, and runs caller SQL on a  *)
(* read-only connection.                                                   *)
(*                                                                         *)
(* State machine: the startup sequence (main/update_db), NumReq query      *)
(* requests (perform_query), the one DataFetcher behind the tokio Mutex    *)
(* (refresh, fetch_and_load_data), the SQLite file (committed content db,  *)
(* the write connection's open transaction tx) and a clock.                *)
(***************************************************************************)
EXTENDS Integers, Sequences, FiniteSets, TLC

\* const TIME_TO_REFRESH: Duration = Duration::from_secs(300), in seconds.
TIME_TO_REFRESH == 300

\* Bounds of the model.
NumReq == 2
MaxLen == 2
MaxTime == 602
MaxCols == 2
MaxBlob == 2

Reqs == 1..NumReq
Ids == {1, 2}
TypeIds == {1}
Names == {"a"}

\* The clock advances by exactly the TTL or by one second more, so that the
\* ages 0 (no delay), 300 (the boundary) and 301 (just stale) all occur.
Delays == {TIME_TO_REFRESH, TIME_TO_REFRESH + 1}

\* struct VersionsEntry / struct VersionTypeEntry: the primary key id and the
\* remaining columns (carried as one payload).
VersionsEntry == [id : Ids, name : Names]
VersionTypeEntry == [id : TypeIds, name : Names]

SeqsUpTo(S, n) == UNION {[1..k -> S] : k \in 0..n}

\* What .json::<Vec<VersionsEntry>>() / .json::<Vec<VersionTypeEntry>>() can
\* decode: any list, duplicate ids included.
VersionLists == SeqsUpTo(VersionsEntry, MaxLen)
VersionTypeLists == SeqsUpTo(VersionTypeEntry, MaxLen)

Range(s) == {s[i] : i \in 1..Len(s)}
UniqueIds(s) == \A i, j \in 1..Len(s) : s[i].id = s[j].id => i = j

\* The write connection has no open transaction.
NoTx == [open |-> FALSE, versions |-> {}, versionTypes |-> {}]

\* The content db.sqlite may hold when the process starts: the empty tables
\* just created, or what an earlier run committed.
StoredTables ==
    {[versions |-> Range(v), versionTypes |-> Range(t)] :
        v \in {x \in VersionLists : UniqueIds(x)},
        t \in {x \in VersionTypeLists : UniqueIds(x)}}

VARIABLES
    now,            \* Instant::now(), seconds since the process started
    boot,           \* position of main: start, loading, loaded, serving, failed
    last_ts,        \* DataFetcher.last_ts
    lock,           \* holder of the Mutex<DataFetcher>: 0 or a request
    fpc,            \* position inside fetch_and_load_data
    versions,       \* the decoded Vec<VersionsEntry>
    version_types,  \* the decoded Vec<VersionTypeEntry>
    idx,            \* next entry of the running for loop
    db,             \* committed content of db.sqlite
    tx,             \* uncommitted content seen by the write connection
    pc,             \* position of each request in perform_query
    sql,            \* the SQL text the request handed to conn.prepare
    status,         \* HTTP status of each response (0: none yet)
    obs,            \* rows of versions the request's statement has read
    chk,            \* history: what the staleness check of the request found
    arrStale,       \* history: the waiting request arrived while stale
    touched,        \* history: the request's own refresh changed last_ts
    nFetch,         \* history: refreshes started by requests
    lastAttempt,    \* history: how the latest fetch_and_load_data ended
    lastOkAt,       \* history: time the last upstream fetch completed, or -1
    tsBase,         \* history: last_ts when fetch_and_load_data was entered
    txBase,         \* history: committed content before the latest replace
    good,           \* history: the collections of the last committed replace
    goodAt,         \* history: time of the fetch that returned them, or -1
    cols,           \* perform_query: the column names of the statement
    row,            \* the cells (ValueRef) of the row being converted
    ci,             \* the loop variable i of the closure (from 1)
    elt,            \* the DbValue decoded from cell i, or NoElt
    row_json,       \* the serde_json::Map being filled
    ret             \* the closure's result, or NoRet

\* The service and the conversion of one row.
svcVars == <<now, boot, last_ts, lock, fpc, versions, version_types, idx, db,
             tx, pc, sql, status, obs, chk, arrStale, touched, nFetch,
             lastAttempt, lastOkAt, tsBase, txBase, good, goodAt>>
rowVars == <<cols, row, ci, elt, row_json, ret>>
vars == <<svcVars, rowVars>>

\* The SQL texts a caller may send: a SELECT over both tables, a text that
\* does not prepare (SELEKT * FROM versions), and a text that prepares but
\* fails while its rows are produced. "none": not looked at yet.
SqlTexts == {"select", "malformed", "row_error"}

FetchPhases == {"get_versions", "get_types"}
TxPhases == {"transaction", "insert_versions", "delete_types", "insert_types",
             "commit"}

\* The caller of the running fetch_and_load_data: update_db (0) or the
\* request that holds the lock.
Caller == IF boot = "loading" THEN 0 ELSE lock

\* The service when the process starts, db.sqlite holding d.
Started(d) ==
    /\ now = 0
    /\ boot = "start"
    /\ last_ts = 0
    /\ lock = 0
    /\ fpc = "none"
    /\ versions = <<>>
    /\ version_types = <<>>
    /\ idx = 1
    /\ db = d
    /\ tx = NoTx
    /\ pc = [r \in Reqs |-> "idle"]
    /\ sql = [r \in Reqs |-> "none"]
    /\ status = [r \in Reqs |-> 0]
    /\ obs = [r \in Reqs |-> {}]
    /\ chk = [r \in Reqs |-> "none"]
    /\ arrStale = [r \in Reqs |-> FALSE]
    /\ touched = [r \in Reqs |-> FALSE]
    /\ nFetch = 0
    /\ lastAttempt = "none"
    /\ lastOkAt = -1
    /\ tsBase = 0
    /\ txBase = d
    /\ good = d
    /\ goodAt = -1

(***************************************************************************)
(* DbValue: rusqlite's ValueRef and serde_json's Value.                    *)
(***************************************************************************)

\* rusqlite::types::ValueRef: Null, Integer(i64), Real(f64), Text(&[u8]),
\* Blob(&[u8]). A real is carried by its default rendering.
ValueRef(kind, i, f, bs) == [kind |-> kind, i |-> i, f |-> f, bs |-> bs]

Bytes == {0, 171}
TextBytes == {97, 255}
Integers64 == {-1, 0, 7}
Reals == {"1.5", "NaN"}

\* What a cell may hold: blobs of up to MaxBlob bytes (0x00 needs the zero
\* padding, 0xab the letters), texts of one byte (97 is "a", 255 is not
\* UTF-8), a finite and a non-finite real.
CellValues ==
    {ValueRef("Null", 0, "", <<>>)}
    \cup {ValueRef("Integer", i, "", <<>>) : i \in Integers64}
    \cup {ValueRef("Real", 0, f, <<>>) : f \in Reals}
    \cup {ValueRef("Text", 0, "", <<b>>) : b \in TextBytes}
    \cup {ValueRef("Blob", 0, "", bs) : bs \in SeqsUpTo(Bytes, MaxBlob)}

\* serde_json::Number: PosInt(u64), NegInt(i64) or Float(f64).
NoNumber == [n |-> "none", i |-> 0, f |-> ""]
\* serde_json::Number::from(i64), line 65.
NumberFromI64(i) ==
    [n |-> IF i < 0 THEN "NegInt" ELSE "PosInt", i |-> i, f |-> ""]
\* serde_json::Number::from_f64, line 62: None unless the float is finite.
IsFinite(f) == f \notin {"NaN", "inf", "-inf"}
NumberFromF64(f) == [n |-> "Float", i |-> 0, f |-> f]

\* serde_json::Value: Null, Number, String (a sequence of characters).
JsonNull == [t |-> "Null", num |-> NoNumber, str |-> <<>>]
JsonNumber(n) == [t |-> "Number", num |-> n, str |-> <<>>]
JsonString(chars) == [t |-> "String", num |-> NoNumber, str |-> chars]

HexDigits == <<"0", "1", "2", "3", "4", "5", "6", "7", "8", "9", "a", "b",
               "c", "d", "e", "f">>

HexByte_Unpadded(b) ==
    IF b < 16 THEN <<HexDigits[b + 1]>>
    ELSE <<HexDigits[(b \div 16) + 1], HexDigits[(b % 16) + 1]>>

\* write!(buf, "{:02x}", b), line 58: two lowercase digits, zero padded.
HexByte(b) == <<HexDigits[(b \div 16) + 1], HexDigits[(b % 16) + 1]>>

\* Lines 55-60: the loop over the bytes appends to buf.
RECURSIVE Hex(_)
Hex(bs) == IF bs = <<>> THEN <<>> ELSE HexByte(Head(bs)) \o Hex(Tail(bs))

\* String::from_utf8_lossy, line 66: a byte that is not UTF-8 becomes
\* U+FFFD.
Utf8Char(b) == IF b = 97 THEN "a" ELSE "U+FFFD"
Utf8Lossy(bs) == [k \in 1..Len(bs) |-> Utf8Char(bs[k])]

\* format!("{}", f), line 64.
Display(f) == IF f = "NaN" THEN <<"N", "a", "N">> ELSE <<f>>

\* DbValue::column_result, lines 51-69: always Ok.
column_result(value) ==
    CASE value.kind = "Blob" -> JsonString(Hex(value.bs))
      [] value.kind = "Real" ->
            IF IsFinite(value.f) THEN JsonNumber(NumberFromF64(value.f))
            ELSE JsonString(Display(value.f))
      [] value.kind = "Integer" -> JsonNumber(NumberFromI64(value.i))
      [] value.kind = "Text" -> JsonString(Utf8Lossy(value.bs))
      [] value.kind = "Null" -> JsonNull

\* No cell decoded yet, serde_json::Map::new(), no result yet.
NoElt == [t |-> "none", num |-> NoNumber, str |-> <<>>]
EmptyMap == [n \in {} |-> NoElt]
NoRet == [done |-> FALSE, object |-> EmptyMap]

ColNames == {"id", "name"}

extend_KeepsFirst(map, name, value) ==
    [n \in DOMAIN map \cup {name} |->
        IF n \in DOMAIN map THEN map[n] ELSE value]

\* row_json.extend([(name, value)]), line 97: Map::insert replaces the
\* value of a key that is already present.
extend(map, name, value) ==
    [n \in DOMAIN map \cup {name} |-> IF n = name THEN value ELSE map[n]]

\* No row is being converted.
RowIdle ==
    /\ cols = <<>>
    /\ row = <<>>
    /\ ci = 1
    /\ elt = NoElt
    /\ row_json = EmptyMap
    /\ ret = NoRet

Init ==
    /\ \E d \in StoredTables : Started(d)
    /\ RowIdle

(***************************************************************************)
(* SQLite: the tables and what a connection sees of them.                  *)
(***************************************************************************)

\* id INT PRIMARY KEY: an INSERT whose id is already in the table fails.
KeyClash(table, e) == \E x \in table : x.id = e.id

ReadView_Uncommitted ==
    IF tx.open THEN [versions |-> tx.versions, versionTypes |-> tx.versionTypes]
    ELSE db

\* A read-only connection opened by perform_query reads committed content
\* only: the rows written inside the write connection's open transaction
\* are invisible to it until tx.commit().
ReadView == db

\* A statement that has started stepping holds a read lock on the file
\* until it is reset; COMMIT needs the file without readers.
Reading(r) == pc[r] = "rows"

(***************************************************************************)
(* main / update_db                                                        *)
(***************************************************************************)

UpdateDb_ViaRefresh ==
    /\ boot = "start"
    /\ last_ts' = now
    /\ tsBase' = now
    /\ IF now - last_ts' > TIME_TO_REFRESH
       THEN /\ boot' = "loading"
            /\ fpc' = "get_versions"
            /\ lastAttempt' = "running"
       ELSE /\ boot' = "loaded"
            /\ UNCHANGED <<fpc, lastAttempt>>
    /\ UNCHANGED <<now, lock, versions, version_types, idx, db, tx, pc, sql,
                   status, obs, chk, arrStale, touched, nFetch, lastOkAt,
                   txBase, good, goodAt, rowVars>>

\* update_db, lines 184-217: open the store, create both tables, read
\* API_TOKEN, build the DataFetcher with last_ts = Instant::now(); then
\* enter fetch_and_load_data, whose first GET goes out.
UpdateDb ==
    /\ boot = "start"
    /\ boot' = "loading"
    /\ last_ts' = now
    /\ tsBase' = now
    /\ fpc' = "get_versions"
    /\ lastAttempt' = "running"
    /\ UNCHANGED <<now, lock, versions, version_types, idx, db, tx, pc, sql,
                   status, obs, chk, arrStale, touched, nFetch, lastOkAt,
                   txBase, good, goodAt, rowVars>>

\* update_db fails before the fetch (open, CREATE TABLE, API_TOKEN not set,
\* client build): main returns the error.
UpdateDbFail ==
    /\ boot = "start"
    /\ boot' = "failed"
    /\ UNCHANGED <<now, last_ts, lock, fpc, versions, version_types, idx, db,
                   tx, pc, sql, status, obs, chk, arrStale, touched, nFetch,
                   lastOkAt, tsBase, txBase, good, lastAttempt, goodAt,
                   rowVars>>

\* main, lines 231-256: the fetcher is wrapped in the Mutex and the server
\* is bound and run; bind may fail.
Serve ==
    /\ boot = "loaded"
    /\ boot' \in {"serving", "failed"}
    /\ UNCHANGED <<now, last_ts, lock, fpc, versions, version_types, idx, db,
                   tx, pc, sql, status, obs, chk, arrStale, touched, nFetch,
                   lastOkAt, tsBase, txBase, good, lastAttempt, goodAt,
                   rowVars>>

(***************************************************************************)
(* DataFetcher::fetch_and_load_data                                        *)
(***************************************************************************)

\* The response of request r leaves with HTTP status `code`; the handler's
\* locals are gone.
Done(r, code) ==
    /\ pc' = [pc EXCEPT ![r] = "done"]
    /\ status' = [status EXCEPT ![r] = code]
    /\ chk' = [chk EXCEPT ![r] = "none"]
    /\ touched' = [touched EXCEPT ![r] = FALSE]

Return_HoldsOnError(ok) ==
    /\ fpc' = "none"
    /\ versions' = <<>>
    /\ version_types' = <<>>
    /\ idx' = 1
    /\ tsBase' = 0
    /\ IF Caller = 0
       THEN /\ boot' = IF ok THEN "loaded" ELSE "failed"
            /\ UNCHANGED <<lock, pc, status, chk, touched>>
       ELSE /\ lock' = IF ok THEN 0 ELSE lock
            /\ IF ok
               THEN /\ pc' = [pc EXCEPT ![lock] = "query"]
                    /\ UNCHANGED <<status, chk, touched>>
               ELSE Done(lock, 500)
            /\ UNCHANGED boot

Return_FailureAsUser(ok) ==
    /\ fpc' = "none"
    /\ versions' = <<>>
    /\ version_types' = <<>>
    /\ idx' = 1
    /\ tsBase' = 0
    /\ IF Caller = 0
       THEN /\ boot' = IF ok THEN "loaded" ELSE "failed"
            /\ UNCHANGED <<lock, pc, status, chk, touched>>
       ELSE /\ lock' = 0
            /\ IF ok
               THEN /\ pc' = [pc EXCEPT ![lock] = "query"]
                    /\ UNCHANGED <<status, chk, touched>>
               ELSE Done(lock, 400)
            /\ UNCHANGED boot

Return_KeepsGuard(ok) ==
    /\ fpc' = "none"
    /\ versions' = <<>>
    /\ version_types' = <<>>
    /\ idx' = 1
    /\ tsBase' = 0
    /\ IF Caller = 0
       THEN /\ boot' = IF ok THEN "loaded" ELSE "failed"
            /\ UNCHANGED <<lock, pc, status, chk, touched>>
       ELSE /\ IF ok
               THEN /\ pc' = [pc EXCEPT ![lock] = "query"]
                    /\ UNCHANGED <<lock, status, chk, touched>>
               ELSE /\ Done(lock, 500)
                    /\ lock' = 0
            /\ UNCHANGED boot

\* fetch_and_load_data returns to its caller. update_db propagates the
\* result to main. In perform_query the MutexGuard is a temporary of the
\* statement at lines 77-82: it is dropped when that statement ends, on the
\* Ok path and on the `?` path (500) alike.
Return(ok) ==
    /\ fpc' = "none"
    /\ versions' = <<>>
    /\ version_types' = <<>>
    /\ idx' = 1
    /\ tsBase' = 0
    /\ IF Caller = 0
       THEN /\ boot' = IF ok THEN "loaded" ELSE "failed"
            /\ UNCHANGED <<lock, pc, status, chk, touched>>
       ELSE /\ lock' = 0
            /\ IF ok
               THEN /\ pc' = [pc EXCEPT ![lock] = "query"]
                    /\ UNCHANGED <<status, chk, touched>>
               ELSE Done(lock, 500)
            /\ UNCHANGED boot

FetchVersionsOk_EagerDelete ==
    /\ fpc = "get_versions"
    /\ \E v \in VersionLists : versions' = v
    /\ fpc' = "get_types"
    /\ tx' = [open |-> TRUE, versions |-> {},
              versionTypes |-> db.versionTypes]
    /\ UNCHANGED <<now, boot, last_ts, lock, version_types, idx, db, pc, sql,
                   status, obs, chk, arrStale, touched, nFetch, lastOkAt,
                   tsBase, txBase, good, lastAttempt, goodAt, rowVars>>

\* Lines 151-154: the versions request and its decode succeed; the
\* version-types GET goes out.
FetchVersionsOk ==
    /\ fpc = "get_versions"
    /\ \E v \in VersionLists : versions' = v
    /\ fpc' = "get_types"
    /\ UNCHANGED <<now, boot, last_ts, lock, version_types, idx, db, tx, pc,
                   sql, status, obs, chk, arrStale, touched, nFetch, lastOkAt,
                   tsBase, txBase, good, lastAttempt, goodAt, rowVars>>

FetchTypesOk_NoStamp ==
    /\ fpc = "get_types"
    /\ \E t \in VersionTypeLists : version_types' = t
    /\ lastOkAt' = now
    /\ touched' = IF Caller = 0 THEN touched
                  ELSE [touched EXCEPT ![Caller] = TRUE]
    /\ fpc' = "transaction"
    /\ UNCHANGED <<now, boot, last_ts, lock, versions, idx, db, tx, pc, sql,
                   status, obs, chk, arrStale, nFetch, tsBase, txBase, good,
                   lastAttempt, goodAt, rowVars>>

\* Lines 155-159: the version-types request and its decode succeed, and
\* last_ts is set to Instant::now() before the transaction is opened.
FetchTypesOk ==
    /\ fpc = "get_types"
    /\ \E t \in VersionTypeLists : version_types' = t
    /\ last_ts' = now
    /\ lastOkAt' = now
    /\ touched' = IF Caller = 0 THEN touched
                  ELSE [touched EXCEPT ![Caller] = TRUE]
    /\ fpc' = "transaction"
    /\ UNCHANGED <<now, boot, lock, versions, idx, db, tx, pc, sql, status,
                   obs, chk, arrStale, nFetch, tsBase, txBase, good,
                   lastAttempt, goodAt, rowVars>>

FetchFail_Retries ==
    /\ fpc \in FetchPhases
    /\ fpc' = "get_versions"
    /\ versions' = <<>>
    /\ nFetch' = IF Caller = 0 THEN nFetch ELSE nFetch + 1
    /\ lastAttempt' = "running"
    /\ UNCHANGED <<now, boot, last_ts, lock, version_types, idx, db, tx, pc,
                   sql, status, obs, chk, arrStale, touched, lastOkAt, tsBase,
                   txBase, good, goodAt, rowVars>>

FetchFail_Stamps ==
    /\ fpc \in FetchPhases
    /\ last_ts' = now
    /\ Return(FALSE)
    /\ lastAttempt' = "fetch_failed"
    /\ UNCHANGED <<now, db, tx, sql, obs, arrStale, nFetch, lastOkAt, good,
                   txBase, goodAt, rowVars>>

\* Either request fails (send or json, the `?` at lines 152-158): the
\* function returns before line 159.
FetchFail ==
    /\ fpc \in FetchPhases
    /\ Return(FALSE)
    /\ lastAttempt' = "fetch_failed"
    /\ UNCHANGED <<now, last_ts, db, tx, sql, obs, arrStale, nFetch, lastOkAt,
                   good, txBase, goodAt, rowVars>>

\* The loop over `entries` that follows a DELETE: with nothing to insert
\* the code goes straight to what follows the loop.
AfterDelete(entries, loop, next) == IF Len(entries) = 0 THEN next ELSE loop

\* Lines 161-164: self.conn.transaction(), DELETE FROM versions, and the
\* INSERT statement prepared.
DeleteVersions ==
    /\ fpc = "transaction"
    /\ tx' = [open |-> TRUE, versions |-> {},
              versionTypes |-> db.versionTypes]
    /\ txBase' = db
    /\ idx' = 1
    /\ fpc' = AfterDelete(versions, "insert_versions", "delete_types")
    /\ UNCHANGED <<now, boot, last_ts, lock, versions, version_types, db, pc,
                   sql, status, obs, chk, arrStale, touched, nFetch, lastOkAt,
                   tsBase, good, lastAttempt, goodAt, rowVars>>

\* Lines 165-167: one iteration of the loop, INSERT INTO versions.
InsertVersion ==
    /\ fpc = "insert_versions"
    /\ ~KeyClash(tx.versions, versions[idx])
    /\ tx' = [tx EXCEPT !.versions = @ \cup {versions[idx]}]
    /\ idx' = idx + 1
    /\ fpc' = IF idx = Len(versions) THEN "delete_types" ELSE fpc
    /\ UNCHANGED <<now, boot, last_ts, lock, versions, version_types, db, pc,
                   sql, status, obs, chk, arrStale, touched, nFetch, lastOkAt,
                   tsBase, txBase, good, lastAttempt, goodAt, rowVars>>

\* Lines 170-171: DELETE FROM versionTypes, and the INSERT statement prepared.
DeleteTypes ==
    /\ fpc = "delete_types"
    /\ tx' = [tx EXCEPT !.versionTypes = {}]
    /\ idx' = 1
    /\ fpc' = AfterDelete(version_types, "insert_types", "commit")
    /\ UNCHANGED <<now, boot, last_ts, lock, versions, version_types, db, pc,
                   sql, status, obs, chk, arrStale, touched, nFetch, lastOkAt,
                   tsBase, txBase, good, lastAttempt, goodAt, rowVars>>

\* Lines 172-174: one iteration of the loop, INSERT INTO versionTypes.
InsertType ==
    /\ fpc = "insert_types"
    /\ ~KeyClash(tx.versionTypes, version_types[idx])
    /\ tx' = [tx EXCEPT !.versionTypes = @ \cup {version_types[idx]}]
    /\ idx' = idx + 1
    /\ fpc' = IF idx = Len(version_types) THEN "commit" ELSE fpc
    /\ UNCHANGED <<now, boot, last_ts, lock, versions, version_types, db, pc,
                   sql, status, obs, chk, arrStale, touched, nFetch, lastOkAt,
                   tsBase, txBase, good, lastAttempt, goodAt, rowVars>>

\* Lines 176-179: tx.commit() succeeds (no statement of another connection
\* is reading the file), the new rows become the committed content, Ok(()).
Commit ==
    /\ fpc = "commit"
    /\ \A r \in Reqs : ~Reading(r)
    /\ db' = [versions |-> tx.versions, versionTypes |-> tx.versionTypes]
    /\ tx' = NoTx
    /\ good' = [versions |-> Range(versions),
                versionTypes |-> Range(version_types)]
    /\ txBase' = db'
    /\ Return(TRUE)
    /\ goodAt' = lastOkAt
    /\ lastAttempt' = "committed"
    /\ UNCHANGED <<now, last_ts, sql, obs, arrStale, nFetch, lastOkAt,
                   rowVars>>

TxFail_CommitsOnDrop ==
    /\ fpc \in TxPhases
    /\ db' = [versions |-> tx.versions, versionTypes |-> tx.versionTypes]
    /\ tx' = NoTx
    /\ Return(FALSE)
    /\ lastAttempt' = "rolled_back"
    /\ UNCHANGED <<now, last_ts, sql, obs, arrStale, nFetch, lastOkAt, good,
                   txBase, goodAt, rowVars>>

\* A `?` between lines 161 and 176 returns the error: transaction() itself,
\* a DELETE, a prepare, an INSERT (a duplicate id always ends here; any
\* statement may fail on I/O) or the commit (I/O, or the file busy with a
\* reader). Dropping `tx` uncommitted rolls the transaction back.
TxFail ==
    /\ fpc \in TxPhases
    /\ tx' = NoTx
    /\ Return(FALSE)
    /\ lastAttempt' = "rolled_back"
    /\ UNCHANGED <<now, last_ts, db, sql, obs, arrStale, nFetch, lastOkAt,
                   good, txBase, goodAt, rowVars>>

(***************************************************************************)
(* perform_query                                                           *)
(***************************************************************************)

NeedsRefresh_Inclusive(delta) == delta >= TIME_TO_REFRESH

NeedsRefresh_Never(delta) == FALSE

\* refresh, line 120: delta > TIME_TO_REFRESH.
NeedsRefresh(delta) == delta > TIME_TO_REFRESH

MutexFree_NotAcrossAwait == lock = 0 \/ fpc \in FetchPhases

MutexFree_Always == TRUE

\* tokio::sync::Mutex: lock().await is granted only while no guard is alive.
MutexFree == lock = 0

\* A POST /query.json arrives; the handler starts and waits in
\* fetcher.lock().await. The handlers are interchangeable: they are
\* numbered in the order the requests arrive.
Arrive(r) ==
    /\ boot = "serving"
    /\ pc[r] = "idle"
    /\ \A q \in Reqs : q < r => pc[q] # "idle"
    /\ pc' = [pc EXCEPT ![r] = "lock"]
    /\ arrStale' = [arrStale EXCEPT ![r] = now - last_ts > TIME_TO_REFRESH]
    /\ UNCHANGED <<now, boot, last_ts, lock, fpc, versions, version_types, idx,
                   db, tx, sql, status, obs, chk, touched, nFetch, lastOkAt,
                   tsBase, txBase, good, lastAttempt, goodAt, rowVars>>

\* Lines 77-82 and 118-124: the lock is granted and refresh() compares the
\* age with the TTL. Stale: fetch_and_load_data is entered under the lock
\* and the versions GET goes out. Fresh: Ok(()), the statement ends and the
\* guard is dropped.
Refresh(r) ==
    /\ pc[r] = "lock"
    /\ MutexFree
    /\ chk' = [chk EXCEPT ![r] =
                 IF now - last_ts > TIME_TO_REFRESH THEN "stale"
                 ELSE IF arrStale[r] THEN "spared" ELSE "fresh"]
    /\ arrStale' = [arrStale EXCEPT ![r] = FALSE]
    /\ IF NeedsRefresh(now - last_ts)
       THEN /\ pc' = [pc EXCEPT ![r] = "fetching"]
            /\ lock' = r
            /\ fpc' = "get_versions"
            /\ tsBase' = last_ts
            /\ nFetch' = nFetch + 1
            /\ lastAttempt' = "running"
       ELSE /\ pc' = [pc EXCEPT ![r] = "query"]
            /\ UNCHANGED <<lock, fpc, tsBase, nFetch, lastAttempt>>
    /\ UNCHANGED <<now, boot, last_ts, versions, version_types, idx, db, tx,
                   sql, status, obs, touched, lastOkAt, txBase, good, goodAt,
                   rowVars>>

Query_PrepareInternal(r) ==
    /\ pc[r] = "query"
    /\ \/ /\ Done(r, 500)
          /\ UNCHANGED <<sql, obs>>
       \/ \E text \in SqlTexts :
            /\ sql' = [sql EXCEPT ![r] = text]
            /\ IF text = "select"
               THEN /\ pc' = [pc EXCEPT ![r] = "rows"]
                    /\ obs' = [obs EXCEPT ![r] = ReadView.versions]
                    /\ chk' = [chk EXCEPT ![r] = "none"]
                    /\ touched' = [touched EXCEPT ![r] = FALSE]
                    /\ UNCHANGED status
               ELSE /\ Done(r, IF text = "malformed" THEN 500 ELSE 400)
                    /\ UNCHANGED obs
    /\ UNCHANGED <<now, boot, last_ts, lock, fpc, versions, version_types, idx,
                   db, tx, arrStale, nFetch, lastOkAt, tsBase, txBase, good,
                   lastAttempt, goodAt, rowVars>>

\* Lines 84-103: the read-only connection is opened (failure: 500) and the
\* statement is prepared from the caller's SQL text, which is looked at
\* here for the first time (failure: 400, WrappedError::user). A text that
\* prepares but fails in query_map or in a row is answered 400 as well.
\* Otherwise the statement starts stepping: it takes its read lock and
\* reads the rows of versions.
Query(r) ==
    /\ pc[r] = "query"
    /\ \/ /\ Done(r, 500)
          /\ UNCHANGED <<sql, obs>>
       \/ \E text \in SqlTexts :
            /\ sql' = [sql EXCEPT ![r] = text]
            /\ IF text = "select"
               THEN /\ pc' = [pc EXCEPT ![r] = "rows"]
                    /\ obs' = [obs EXCEPT ![r] = ReadView.versions]
                    /\ chk' = [chk EXCEPT ![r] = "none"]
                    /\ touched' = [touched EXCEPT ![r] = FALSE]
                    /\ UNCHANGED status
               ELSE /\ Done(r, 400)
                    /\ UNCHANGED obs
    /\ UNCHANGED <<now, boot, last_ts, lock, fpc, versions, version_types, idx,
                   db, tx, arrStale, nFetch, lastOkAt, tsBase, txBase, good,
                   lastAttempt, goodAt, rowVars>>

Rows_WritesThrough(r) ==
    /\ pc[r] = "rows"
    /\ Done(r, 200)
    /\ obs' = [obs EXCEPT ![r] = {}]
    /\ db' = [db EXCEPT !.versions = {}]
    /\ UNCHANGED <<now, boot, last_ts, lock, fpc, versions, version_types, idx,
                   tx, sql, arrStale, nFetch, lastOkAt, tsBase, txBase, good,
                   lastAttempt, goodAt, rowVars>>

\* Lines 93-105: the statement reads the rows of versionTypes, the rows are
\* collected and the 200 response leaves.
Rows(r) ==
    /\ pc[r] = "rows"
    /\ Done(r, 200)
    /\ obs' = [obs EXCEPT ![r] = {}]
    /\ UNCHANGED <<now, boot, last_ts, lock, fpc, versions, version_types, idx,
                   db, tx, sql, arrStale, nFetch, lastOkAt, tsBase, txBase,
                   good, lastAttempt, goodAt, rowVars>>

\* Time passes. update_db runs before any request and the time it takes
\* shifts every later instant alike; the statements of the replace (lines
\* 161-176) never read the clock: time that passes during them is taken to
\* pass right after.
Tick ==
    /\ boot = "serving"
    /\ fpc \notin TxPhases
    /\ \E d \in Delays : now + d <= MaxTime /\ now' = now + d
    /\ UNCHANGED <<boot, last_ts, lock, fpc, versions, version_types, idx, db,
                   tx, pc, sql, status, obs, chk, arrStale, touched, nFetch,
                   lastOkAt, tsBase, txBase, good, lastAttempt, goodAt,
                   rowVars>>

Next ==
    \/ UpdateDb
    \/ UpdateDbFail
    \/ Serve
    \/ FetchVersionsOk
    \/ FetchTypesOk
    \/ FetchFail
    \/ DeleteVersions
    \/ InsertVersion
    \/ DeleteTypes
    \/ InsertType
    \/ Commit
    \/ TxFail
    \/ \E r \in Reqs : Arrive(r)
    \/ \E r \in Reqs : Refresh(r)
    \/ \E r \in Reqs : Query(r)
    \/ \E r \in Reqs : Rows(r)
    \/ Tick

Spec == Init /\ [][Next]_vars

\* A step of the running fetch_and_load_data: an upstream request returns
\* (a response or an error) or a statement of the replace returns.
FetchAndLoadStep ==
    \/ FetchVersionsOk
    \/ FetchTypesOk
    \/ FetchFail
    \/ DeleteVersions
    \/ InsertVersion
    \/ DeleteTypes
    \/ InsertType
    \/ Commit
    \/ TxFail

\* Every upstream call and store operation returns, a handler that can run
\* is run, and a request waiting in lock().await gets the lock once it
\* stays free. Arrivals, the passing of time and the startup are not
\* forced.
FairSpec ==
    /\ Spec
    /\ WF_vars(FetchAndLoadStep)
    /\ \A r \in Reqs :
          WF_vars(Refresh(r)) /\ WF_vars(Query(r)) /\ WF_vars(Rows(r))

(***************************************************************************)
(* perform_query: the closure of query_map, one row                        *)
(***************************************************************************)

\* A statement with 1..MaxCols columns, names repeated or not (line 87),
\* has produced a row: the closure starts with an empty map (line 94). The
\* service is left in its start state.
InitRow ==
    /\ Started([versions |-> {}, versionTypes |-> {}])
    /\ \E k \in 1..MaxCols :
          /\ cols \in [1..k -> ColNames]
          /\ row \in [1..k -> CellValues]
    /\ ci = 1
    /\ elt = NoElt
    /\ row_json = EmptyMap
    /\ ret = NoRet

\* Line 96: let elt: DbValue = row.get(i)?, which calls column_result.
RowGet ==
    /\ ci <= Len(cols)
    /\ elt = NoElt
    /\ elt' = column_result(row[ci])
    /\ UNCHANGED <<svcVars, cols, row, ci, row_json, ret>>

\* Line 97: row_json.extend([(name.to_string(), elt.0)]); next column.
RowExtend ==
    /\ elt # NoElt
    /\ row_json' = extend(row_json, cols[ci], elt)
    /\ ci' = ci + 1
    /\ elt' = NoElt
    /\ UNCHANGED <<svcVars, cols, row, ret>>

\* Line 99: Ok(serde_json::Value::Object(row_json)).
RowOk ==
    /\ ci > Len(cols)
    /\ ~ret.done
    /\ ret' = [done |-> TRUE, object |-> row_json]
    /\ UNCHANGED <<svcVars, cols, row, ci, elt, row_json>>

NextRow ==
    \/ RowGet
    \/ RowExtend
    \/ RowOk

SpecRow == InitRow /\ [][NextRow]_vars

(***************************************************************************)
(* Properties                                                              *)
(***************************************************************************)

\* C1: at every instant, also while a replace transaction is open and other
\* requests are executing SQL, what a query reads is one complete snapshot
\* of both tables: the committed content is exactly the two collections of
\* the last committed replace (the previous snapshot until the commit, the
\* new one from it on), and a statement part-way through its rows has read
\* rows of the very content its remaining reads will see.
C1_AtomicReplace ==
    /\ ReadView = good
    /\ tx.open => ReadView = txBase
    /\ \A r \in Reqs : Reading(r) => obs[r] = ReadView.versions

\* C1 witness: a transaction is open and has deleted or inserted rows the
\* committed content does not have, while a request's statement is
\* part-way through its rows.
C1_Witness ==
    /\ tx.open
    /\ tx.versions # db.versions
    /\ tx.versionTypes # db.versionTypes
    /\ \E r \in Reqs : Reading(r) /\ obs[r] # {}

\* C2: once a replace has failed after the transaction was opened, the
\* transaction is closed and the committed content, hence what every later
\* query reads, is exactly the content from before the replace.
C2_RollbackRestores ==
    lastAttempt = "rolled_back" =>
        /\ ~tx.open
        /\ db = txBase
        /\ ReadView = txBase

\* C2 witness: the replace of a non-empty snapshot was rolled back and a
\* later statement is reading that snapshot.
C2_Witness ==
    /\ lastAttempt = "rolled_back"
    /\ db.versions # {}
    /\ db.versionTypes # {}
    /\ \E r \in Reqs : Reading(r) /\ obs[r] = txBase.versions

\* C3: a request whose refresh check runs while the age of the last refresh
\* is at most the TTL (300 s included) goes on to its SQL at once: the step
\* starts no upstream fetch, opens no transaction and changes neither the
\* tables nor last_ts; so requests checked right after a successful refresh
\* add no fetch to the one that refresh made.
C3_FreshCheckIsNoOp ==
    [][\A r \in Reqs :
          (/\ pc[r] = "lock"
           /\ pc'[r] # "lock"
           /\ now - last_ts <= TIME_TO_REFRESH)
          => /\ pc'[r] = "query"
             /\ fpc' = "none"
             /\ nFetch' = nFetch
             /\ tx' = tx
             /\ ~tx'.open
             /\ db' = db
             /\ last_ts' = last_ts
             /\ lock' = lock]_vars

\* C3 witness: a request has passed its check with the age exactly at the
\* TTL and is about to run its SQL, no fetch having been made since startup.
C3_Witness ==
    \E r \in Reqs :
        /\ pc[r] = "query"
        /\ chk[r] = "fresh"
        /\ now - last_ts = TIME_TO_REFRESH
        /\ nFetch = 0

\* C4: a request whose refresh check found the age strictly above the TTL
\* is either still inside fetch_and_load_data, holding the lock, or has got
\* both upstream responses before it reaches its SQL; it never reaches its
\* SQL without the fetch.
C4_StaleCheckFetches ==
    \A r \in Reqs :
        chk[r] = "stale" =>
            \/ pc[r] = "fetching" /\ lock = r /\ fpc # "none"
            \/ pc[r] = "query" /\ touched[r] /\ nFetch > 0

\* C4 witness: two requests more than the TTL apart, the first answered
\* after its fetch, the second past its own fetch: two fetches were made.
C4_Witness ==
    \E r, q \in Reqs :
        /\ status[q] = 200
        /\ pc[q] = "done"
        /\ pc[r] = "query"
        /\ chk[r] = "stale"
        /\ nFetch = 2

\* C5: when a refresh started by a request ends because an upstream request
\* failed, last_ts keeps its value and the age stays above the TTL; and
\* the refresh check of the next request, made while that failure is the
\* last thing that happened to the fetcher, starts the fetch again.
C5_FetchFailureRetries ==
    [][/\ (fpc \in FetchPhases /\ fpc' = "none") =>
            /\ last_ts' = last_ts
            /\ Caller # 0 => now' - last_ts' > TIME_TO_REFRESH
       /\ \A r \in Reqs :
            (/\ lastAttempt = "fetch_failed"
             /\ pc[r] = "lock"
             /\ pc'[r] # "lock")
            => /\ pc'[r] = "fetching"
               /\ fpc' = "get_versions"
               /\ nFetch' = nFetch + 1]_vars

\* C5 witness: the fetch of one request has failed (500) and the next
\* request is waiting for its refresh check.
C5_Witness ==
    /\ lastAttempt = "fetch_failed"
    /\ boot = "serving"
    /\ \E r, q \in Reqs : status[q] = 500 /\ pc[q] = "done" /\ pc[r] = "lock"

\* C6 (as stated): when a refresh started by a request ends because the
\* replace failed after both upstream requests succeeded, last_ts has the
\* value it had before the attempt and the age is still above the TTL.
C6_ReplaceFailureKeepsTimestamp ==
    [][(/\ fpc \in TxPhases
        /\ fpc' = "none"
        /\ lastAttempt' = "rolled_back"
        /\ Caller # 0)
       => /\ last_ts' = tsBase
          /\ now' - last_ts' > TIME_TO_REFRESH]_vars

\* C6, what the code does instead: once the replace of a request's refresh
\* has failed, last_ts holds the time the responses arrived, so the age is
\* within the TTL although the tables are those from before the attempt.
C6_StampedBeforeReplace ==
    (lastAttempt = "rolled_back" /\ boot = "serving") =>
        /\ last_ts = lastOkAt
        /\ db = txBase

\* C6 failing run: the replace failed, and a later request passed its
\* refresh check as fresh and goes on to query the old tables.
C6_Witness ==
    /\ lastAttempt = "rolled_back"
    /\ now - last_ts <= TIME_TO_REFRESH
    /\ \E r, q \in Reqs :
          /\ status[q] = 500
          /\ pc[r] = "query"
          /\ chk[r] \in {"fresh", "spared"}

C8_OneFetchForConcurrentStale ==
    /\ (fpc \in FetchPhases /\ Caller # 0) =>
           now - lastOkAt > TIME_TO_REFRESH
    /\ \A r \in Reqs :
           chk[r] = "spared" =>
               /\ pc[r] = "query"
               /\ lock # r
               /\ ~touched[r]
               /\ last_ts = lastOkAt

\* C8 witness: two requests arrived stale; the first fetched, replaced and
\* was answered, the second found the state fresh: one fetch in total.
C8_Witness ==
    \E r, q \in Reqs :
        /\ chk[r] = "spared"
        /\ status[q] = 200
        /\ lastAttempt = "committed"
        /\ nFetch = 1

\* C9: once the server runs, fetch_and_load_data is running only for the
\* one request that holds the lock; no two requests are inside their
\* refresh at once, and a transaction is open only inside that refresh.
C9_SingleFlight ==
    /\ Cardinality({r \in Reqs : pc[r] = "fetching"}) <= 1
    /\ boot = "serving" =>
          /\ fpc # "none" <=> \E r \in Reqs : pc[r] = "fetching"
          /\ \A r \in Reqs : pc[r] = "fetching" => lock = r
    /\ tx.open => fpc \in TxPhases

\* C9 witness: one request is inside its refresh with the transaction open
\* while another waits for the lock.
C9_Witness ==
    \E r, q \in Reqs :
        /\ pc[r] = "fetching"
        /\ tx.open
        /\ pc[q] = "lock"

\* C10 (as stated): the request whose SQL fails to prepare is answered 400
\* and has changed neither the tables nor last_ts since it arrived.
C10_BadSqlLeavesAllUntouched ==
    [][\A r \in Reqs :
          (pc[r] = "query" /\ sql'[r] = "malformed" /\ pc'[r] = "done")
          => /\ status'[r] = 400
             /\ ~touched[r]
             /\ db' = db
             /\ last_ts' = last_ts]_vars

\* C10 (amended): the request whose SQL fails to prepare is answered 400
\* and the prepare changes neither the tables nor last_ts; the request has
\* left last_ts as it was exactly when its refresh check was not stale: a
\* stale check was followed by this request's own refresh first.
C10_BadSqlAfterRefresh ==
    [][\A r \in Reqs :
          (pc[r] = "query" /\ sql'[r] = "malformed" /\ pc'[r] = "done")
          => /\ status'[r] = 400
             /\ db' = db
             /\ tx' = tx
             /\ last_ts' = last_ts
             /\ chk[r] \in {"fresh", "spared", "stale"}
             /\ touched[r] <=> chk[r] = "stale"]_vars

\* C10 witness: a request that arrived stale refreshed the tables, then
\* failed to prepare its SQL and was answered 400.
C10_Witness ==
    \E r \in Reqs :
        /\ sql[r] = "malformed"
        /\ status[r] = 400
        /\ pc[r] = "done"
        /\ nFetch = 1
        /\ last_ts = now
        /\ lastAttempt = "committed"
        /\ \A q \in Reqs \ {r} : pc[q] = "idle"

\* C11: a response is 500 only for a request whose SQL was never handed to
\* prepare (its refresh failed or the read-only open failed), 400 only for
\* a request whose SQL failed to prepare or failed in its rows, and 200
\* only for a request whose statement ran to the end; a request without a
\* response has no status, and only a prepared SELECT iterates rows.
C11_ErrorClasses ==
    \A r \in Reqs :
        /\ pc[r] = "done" =>
              \/ status[r] = 500 /\ sql[r] = "none"
              \/ status[r] = 400 /\ sql[r] \in {"malformed", "row_error"}
              \/ status[r] = 200 /\ sql[r] = "select"
        /\ pc[r] # "done" => status[r] = 0
        /\ pc[r] \in {"idle", "lock", "fetching", "query"} => sql[r] = "none"
        /\ Reading(r) => sql[r] = "select"

\* C11 witness: one request was answered 500 because its refresh failed,
\* the next one 400 for its SQL.
C11_Witness ==
    \E r, q \in Reqs :
        /\ status[r] = 500
        /\ lastAttempt \in {"fetch_failed", "rolled_back"}
        /\ status[q] = 400
        /\ sql[q] = "row_error"

\* C12: a request exists only once main serves, main serves only after
\* update_db's own fetch_and_load_data, called without the age test, got
\* both responses and committed; when that call fails main ends and no
\* request is ever accepted.
C12_LoadedBeforeServing ==
    /\ (\E r \in Reqs : pc[r] # "idle") => boot = "serving"
    /\ boot \in {"loaded", "serving"} =>
          /\ lastOkAt >= 0
          /\ lastAttempt # "none"
          /\ db = good
    /\ boot = "loaded" => lastAttempt = "committed" /\ last_ts = lastOkAt
    /\ boot = "failed" =>
          /\ \A r \in Reqs : pc[r] = "idle"
          /\ nFetch = 0

\* C12 witness: a statement is reading the tables that the startup load
\* committed; no request has refreshed yet.
C12_Witness ==
    /\ boot = "serving"
    /\ nFetch = 0
    /\ lastAttempt = "committed"
    /\ db.versions # {}
    /\ \E r \in Reqs : Reading(r) /\ obs[r] = db.versions

\* C13: while the two upstream requests are outstanding, the first answered
\* or not, no transaction is open and the committed content is untouched;
\* after a refresh that ended in a failed upstream request it still is.
C13_NoStoreBeforeBothFetched ==
    /\ fpc \in FetchPhases => (~tx.open /\ tx = NoTx /\ db = txBase)
    /\ lastAttempt = "fetch_failed" =>
          (~tx.open /\ tx = NoTx /\ db = txBase /\ db = good)

\* C13 witness: a request's refresh has decoded a versions list that
\* differs from the stored one and waits for the version-types response.
C13_Witness ==
    /\ fpc = "get_types"
    /\ Caller # 0
    /\ Len(versions) > 0
    /\ Range(versions) # db.versions
    /\ db.versions # {}

\* C14: fetch_and_load_data runs only for update_db or for the request
\* that holds the lock and found the age above the TTL; the refreshes
\* started by requests are no more than the requests past their check; and
\* a failed refresh has been answered 500 to a request.
C14_PullDrivenNoRetry ==
    /\ fpc # "none" =>
          \/ boot = "loading" /\ lock = 0
          \/ /\ boot = "serving"
             /\ lock \in Reqs
             /\ pc[lock] = "fetching"
             /\ chk[lock] = "stale"
    /\ nFetch <= Cardinality({r \in Reqs : pc[r] \notin {"idle", "lock"}})
    /\ (boot = "serving" /\ lastAttempt \in {"fetch_failed", "rolled_back"})
          => \E r \in Reqs : pc[r] = "done" /\ status[r] = 500

\* C14 witness: the only request so far made one fetch, which failed, and
\* was answered 500; nothing is running.
C14_Witness ==
    /\ lastAttempt = "fetch_failed"
    /\ nFetch = 1
    /\ fpc = "none"
    /\ lock = 0
    /\ \E r \in Reqs :
          /\ status[r] = 500
          /\ \A q \in Reqs \ {r} : pc[q] = "idle"

\* C15: the committed tables change only in the step that commits a
\* refresh transaction and last_ts only inside fetch_and_load_data (or when
\* update_db builds the fetcher); a step of a request that is executing its
\* SQL, whatever the text, changes neither the tables, nor the write
\* connection's transaction, nor last_ts, nor the lock.
C15_SqlChangesNothing ==
    [][/\ db' # db => (fpc = "commit" /\ lastAttempt' = "committed")
       /\ last_ts' # last_ts => (fpc = "get_types" \/ boot = "start")
       /\ \A r \in Reqs :
            (pc[r] \in {"query", "rows"} /\ pc'[r] # pc[r])
            => /\ db' = db
               /\ tx' = tx
               /\ last_ts' = last_ts
               /\ lock' = lock
               /\ fpc' = fpc]_vars

\* C15 witness: one request has run a SELECT to its end and another has
\* had its SQL rejected, and the tables and last_ts are still those of the
\* startup load.
C15_Witness ==
    /\ nFetch = 0
    /\ last_ts = 0
    /\ db.versions # {}
    /\ db = good
    /\ \E r, q \in Reqs :
          /\ status[r] = 200
          /\ sql[r] = "select"
          /\ status[q] = 400

\* C16: while fetch_and_load_data runs for a request, a request waiting
\* for the lock stays waiting and unanswered through every step, and the
\* lock stays with the refreshing request until the refresh returns: if it
\* never does, the waiting requests never pass their refresh check.
C16_WaitersBlockedByFetch ==
    [][/\ \A r \in Reqs :
            (pc[r] = "lock" /\ fpc # "none")
            => (pc'[r] = "lock" /\ status'[r] = 0)
       /\ (boot = "serving" /\ fpc # "none" /\ fpc' # "none")
            => (lock \in Reqs /\ lock' = lock)]_vars

\* C16 witness: a request waits for the lock, unanswered, while another
\* request's refresh waits for its second upstream response.
C16_Witness ==
    \E r, q \in Reqs :
        /\ pc[r] = "lock"
        /\ status[r] = 0
        /\ pc[q] = "fetching"
        /\ lock = q
        /\ fpc = "get_types"

\* The last of the first k columns that is named n.
LastNamed(n, k) ==
    CHOOSE i \in 1..k : cols[i] = n /\ \A j \in (i + 1)..k : cols[j] # n

\* The value of a hex digit.
HexValue(c) == (CHOOSE d \in 1..16 : HexDigits[d] = c) - 1

\* C17: after each column the object has one key per distinct name among
\* the columns converted so far, and the value under a name is the decoded
\* cell of the last column of that name; the finished object is the map
\* after the last column.
C17_LastColumnWins ==
    /\ DOMAIN row_json = {cols[i] : i \in 1..(ci - 1)}
    /\ Cardinality(DOMAIN row_json) <= ci - 1
    /\ \A n \in DOMAIN row_json :
          row_json[n] = column_result(row[LastNamed(n, ci - 1)])
    /\ ret.done => (ci = Len(cols) + 1 /\ ret.object = row_json)

\* C17 witness: a finished row of two columns with the same name and
\* different cells: the object has one key.
C17_Witness ==
    /\ ret.done
    /\ Len(cols) = 2
    /\ cols[1] = cols[2]
    /\ column_result(row[1]) # column_result(row[2])
    /\ Cardinality(DOMAIN ret.object) = 1

\* C18: every cell decodes to a JSON value: Null to null, an integer to a
\* number of the same value, a text to a string, a blob of n bytes to a
\* string of 2n characters, each a lowercase hex digit, pair k spelling
\* byte k (the empty blob gives the empty string).
C18_DecodeTotalKindPreserving ==
    elt # NoElt =>
        LET value == row[ci] IN
        /\ elt.t \in {"Null", "Number", "String"}
        /\ value.kind = "Null" => elt = JsonNull
        /\ value.kind = "Integer" =>
              /\ elt.t = "Number"
              /\ elt.num.n \in {"PosInt", "NegInt"}
              /\ elt.num.i = value.i
        /\ value.kind = "Text" =>
              /\ elt.t = "String"
              /\ elt.num = NoNumber
        /\ value.kind = "Blob" =>
              /\ elt.t = "String"
              /\ Len(elt.str) = 2 * Len(value.bs)
              /\ \A k \in 1..Len(elt.str) : elt.str[k] \in Range(HexDigits)
              /\ \A k \in 1..Len(value.bs) :
                    16 * HexValue(elt.str[2 * k - 1])
                       + HexValue(elt.str[2 * k]) = value.bs[k]

\* C18 witness: the blob 00 ab has been decoded.
C18_Witness ==
    /\ elt # NoElt
    /\ row[ci] = ValueRef("Blob", 0, "", <<0, 171>>)
    /\ elt.str = <<"0", "0", "a", "b">>

\* C19: under FairSpec the lock, once taken, is released again, whether
\* the refresh succeeds or fails, and every request that has arrived is
\* eventually answered with 200, 400 or 500.
C19_EveryRequestAnswered ==
    /\ (lock # 0) ~> (lock = 0)
    /\ \A r \in Reqs :
          (pc[r] = "lock") ~> (pc[r] = "done" /\ status[r] \in {200, 400, 500})

\* C19 witness: the first request's refresh failed on an upstream request
\* (500), and the second request, which had to refresh again, was answered
\* 200.
C19_Witness ==
    /\ status[1] = 500
    /\ sql[1] = "none"
    /\ status[2] = 200
    /\ nFetch = 2
    /\ lock = 0
    /\ now <= 2 * TIME_TO_REFRESH + 1

\* C20 (as stated): whenever the server runs and no refresh is in
\* progress, the committed tables are the collections of the fetch that set
\* the current last_ts.
C20_MirrorIsOfStampingFetch ==
    (boot = "serving" /\ fpc = "none") => (db = good /\ goodAt = last_ts)

\* C20, what the code guarantees instead: the committed tables are the
\* collections of the last fetch whose replace committed, which is the
\* fetch that set last_ts only if no later replace was rolled back.
C20_MirrorIsOfLastCommit ==
    (boot = "serving" /\ fpc = "none") =>
        /\ db = good
        /\ goodAt <= last_ts
        /\ goodAt >= 0
        /\ lastAttempt = "committed" => goodAt = last_ts
        /\ goodAt # last_ts =>
              \E r \in Reqs : pc[r] = "done" /\ status[r] = 500

\* C20 failing run: a request has passed its refresh check as fresh, within
\* the TTL of last_ts, while the tables are from a fetch older than the TTL.
C20_Witness ==
    \E r \in Reqs :
        /\ pc[r] = "query"
        /\ chk[r] = "fresh"
        /\ now - last_ts <= TIME_TO_REFRESH
        /\ now - goodAt > TIME_TO_REFRESH
        /\ fpc = "none"

====
